---- MODULE Spec2Model ----
(***************************************************************************)
(* Model of the SQL gateway of starlette_mcp_sse: the two module-level     *)
(* connection pools (common/db_utils.py and services/pg_query.py), the     *)
(* query executor and the statement builders of services/pg_query.py, the  *)
(* API-key gate of services/auth_service.py and the SSE route handler of   *)
(* routes.py.                                                              *)
(*                                                                         *)
(* The program runs on one asyncio event loop: the code between two        *)
(* awaits runs without interleaving, so every action below is the code of  *)
(* one task from one suspension point to the next.                         *)
(***************************************************************************)
EXTENDS Integers, Sequences, FiniteSets, TLC

\* ------------------------------------------------------------------ bounds
NumTasks == 2          \* concurrent asyncio tasks (requests in flight)
MaxOps == 3            \* calls started in one behaviour
MaxParams == 2         \* longest query_params list / data mapping drawn
MaxRows == 2           \* rows the table t holds at most
NumCalls == 11         \* calls in flight in the connection-load model

\* ------------------------------------------------------- program constants
max_size == 10         \* asyncpg.create_pool(..., max_size=10)
None == -1             \* Python None for the Optional[int] arguments

Tasks == 1..NumTasks
Modules == {"db_utils", "pg_query"}
Keys == {"a", "b"}                       \* non-empty credentials
Tools == {"select", "insert", "update", "delete"}
PgErrors == {"UniqueViolationError"}     \* subclasses of asyncpg.PostgresError

\* An Optional[List]: none = TRUE is Python None (items is then <<>>).
NoneList == [none |-> TRUE, items |-> <<>>]
List(s) == [none |-> FALSE, items |-> s]
Truthy(l) == ~l.none /\ Len(l.items) > 0

\* A token of SQL text: plain text (n = 0) or the placeholder $n.
Txt(s) == [s |-> s, n |-> 0]
Ph(i) == [s |-> "$", n |-> i]

VARIABLES
    db_pool,      \* module -> its global _db_pool: a pool id, 0 for None
    pools,        \* sequence of the pools create_pool has produced
    api_keys,     \* rows of the key table: records [key, active]
    configOk,     \* DB_USER, DB_HOST and DB_NAME of pg_query are non-empty
    task,         \* task -> the frame of the call it is running
    ops,          \* calls started so far
    call,         \* arguments of the last statement-builder call
    built,        \* the statement that call built
    round,        \* the table t, the last tool result and the last insert (SpecRound)
    load          \* module -> calls waiting for / holding a connection (SpecLoad)

vars == <<db_pool, pools, api_keys, configOk, task, ops, call, built, round, load>>

\* ------------------------------------------------- statement builder (pure)
RECURSIVE SeqsUpTo(_, _)
SeqsUpTo(S, n) ==
    IF n = 0 THEN {<<>>}
    ELSE LET shorter == SeqsUpTo(S, n - 1)
         IN  shorter \cup {Append(s, x) : s \in shorter, x \in S}

Vals == {7, 8}                            \* parameter and column values
Columns == {"name", "qty"}                \* column names of a data mapping
Distinct(s) == \A i, j \in DOMAIN s : i # j => s[i].col # s[j].col

\* A dict in insertion order: a sequence of [col, val] with distinct cols.
Dicts == {d \in SeqsUpTo([col : Columns, val : Vals], MaxParams) : Distinct(d)}
ParamLists == {NoneList} \cup {List(s) : s \in SeqsUpTo(Vals, MaxParams)}
Limits == {None, 0, 10}
Offsets == {None, 0, 5}
Returnings == {NoneList, List(<<>>), List(<<"id">>)}

\* len(x) of a list; never applied to None by the code
PyLen(l) == Len(l.items)
\* (x or [])
OrEmpty(l) == IF Truthy(l) THEN l.items ELSE <<>>

\* The caller's predicate fragment: it uses the placeholders $first .. $first+n-1
\* ("Placeholders ($1, $2) are used for query_params"); the builders copy it as is.
WhereFragment(first, n) == [j \in 1..n |-> Ph(first + j - 1)]

NoStmt == [query |-> <<>>, params |-> NoneList, mode |-> "none"]

NoCall == [tool |-> "none", where |-> FALSE, query_params |-> NoneList,
           order_by |-> FALSE, limit |-> None, offset |-> None,
           data |-> <<>>, returning |-> NoneList]

\* pg_query.py:116  the number after LIMIT
LimitIndex(current_param_idx, query_params) ==
    current_param_idx + (IF Truthy(query_params) THEN PyLen(query_params) ELSE 0)

\* the offset arithmetic without its "- 1" adjustment
OffsetIndexNoAdjust(current_param_idx, query_params, limit) ==
    current_param_idx + (IF Truthy(query_params) THEN PyLen(query_params) ELSE 0)

\* pg_query.py:120  the number after OFFSET
OffsetIndex(current_param_idx, query_params, limit) ==
    current_param_idx +
        (IF Truthy(query_params) /\ limit # None THEN PyLen(query_params) - 1
         ELSE IF Truthy(query_params) THEN PyLen(query_params)
         ELSE 0)

\* select_from_table up to its call of _execute_query
select_from_table(a) ==
    LET q0 == <<Txt("SELECT"), Txt("*"), Txt("FROM"), Txt("t")>>
        q1 == IF a.where
              THEN q0 \o <<Txt("WHERE")>> \o WhereFragment(1, PyLen(a.query_params))
              ELSE q0
        q2 == IF a.order_by THEN q1 \o <<Txt("ORDER BY"), Txt("c")>> ELSE q1
        idx0 == 0
        idx1 == IF a.limit # None THEN idx0 + 1 ELSE idx0
        q3 == IF a.limit # None
              THEN q2 \o <<Txt("LIMIT"), Ph(LimitIndex(idx1, a.query_params))>>
              ELSE q2
        p3 == IF a.limit # None
              THEN List(OrEmpty(a.query_params) \o <<a.limit>>)
              ELSE a.query_params
        idx2 == IF a.offset # None THEN idx1 + 1 ELSE idx1
        q4 == IF a.offset # None
              THEN q3 \o <<Txt("OFFSET"), Ph(OffsetIndex(idx2, p3, a.limit))>>
              ELSE q3
        p4 == IF a.offset # None
              THEN List(OrEmpty(p3) \o <<a.offset>>)
              ELSE p3
    IN  [query |-> q4, params |-> p4, mode |-> "fetch_all"]

\* placeholders numbered from $0
InsertPlaceholdersFromZero(data) == [i \in 1..Len(data) |-> Ph(i - 1)]

\* placeholders numbered from $N down to $1
InsertPlaceholdersReversed(data) == [i \in 1..Len(data) |-> Ph(Len(data) + 1 - i)]

\* pg_query.py:141  [f"${i+1}" for i in range(len(data))]
InsertPlaceholders(data) == [i \in 1..Len(data) |-> Ph((i - 1) + 1)]

\* insert_into_table up to its call of _execute_query
insert_into_table(a) ==
    LET columns == [i \in 1..Len(a.data) |-> Txt(a.data[i].col)]
        values == [i \in 1..Len(a.data) |-> a.data[i].val]
        q0 == <<Txt("INSERT INTO"), Txt("t"), Txt("(")>> \o columns
              \o <<Txt(") VALUES (")>> \o InsertPlaceholders(a.data) \o <<Txt(")")>>
    IN  IF Truthy(a.returning)
        THEN [query |-> q0 \o <<Txt("RETURNING")>>
                           \o [i \in 1..PyLen(a.returning) |-> Txt(a.returning.items[i])],
              params |-> List(values), mode |-> "fetch_all"]
        ELSE [query |-> q0, params |-> List(values), mode |-> "execute_only"]

\* the predicate parameters put before the set-values
UpdateParamsWhereFirst(update_params, query_params) ==
    (IF Truthy(query_params) THEN query_params.items ELSE <<>>) \o update_params

\* pg_query.py:187  update_params + (query_params if query_params else [])
UpdateFinalParams(update_params, query_params) ==
    update_params \o (IF Truthy(query_params) THEN query_params.items ELSE <<>>)

\* update_table up to its call of _execute_query
update_table(a) ==
    LET K == Len(a.data)
        set_clauses == [i \in 1..(2 * K) |->
                           IF i % 2 = 1 THEN Txt(a.data[(i + 1) \div 2].col)
                           ELSE Ph(1 + (i \div 2 - 1))]
        update_params == [i \in 1..K |-> a.data[i].val]
        final_params == UpdateFinalParams(update_params, a.query_params)
    IN  [query |-> <<Txt("UPDATE"), Txt("t"), Txt("SET")>> \o set_clauses
                   \o <<Txt("WHERE")>> \o WhereFragment(K + 1, PyLen(a.query_params)),
         params |-> List(final_params), mode |-> "execute_only"]

\* delete_from_table up to its call of _execute_query
delete_from_table(a) ==
    [query |-> <<Txt("DELETE FROM"), Txt("t"), Txt("WHERE")>>
               \o WhereFragment(1, PyLen(a.query_params)),
     params |-> a.query_params, mode |-> "execute_only"]

BuildStatement(a) ==
    CASE a.tool = "select" -> select_from_table(a)
      [] a.tool = "insert" -> insert_into_table(a)
      [] a.tool = "update" -> update_table(a)
      [] a.tool = "delete" -> delete_from_table(a)

SelectCalls == {[NoCall EXCEPT !.tool = "select", !.where = w, !.query_params = p,
                               !.order_by = o, !.limit = l, !.offset = f] :
                   w \in BOOLEAN, p \in ParamLists, o \in BOOLEAN,
                   l \in Limits, f \in Offsets}
InsertCalls == {[NoCall EXCEPT !.tool = "insert", !.data = d, !.returning = r] :
                   d \in Dicts, r \in Returnings}
UpdateCalls == {[NoCall EXCEPT !.tool = "update", !.where = TRUE, !.data = d,
                               !.query_params = p] : d \in Dicts, p \in ParamLists}
DeleteCalls == {[NoCall EXCEPT !.tool = "delete", !.where = TRUE, !.query_params = p] :
                   p \in ParamLists}

\* The calls the tasks of the concurrent model make, one per tool (the
\* scenarios of the tools' docstrings).
ExampleCall(tool) ==
    CASE tool = "select" ->
            [NoCall EXCEPT !.tool = "select", !.where = TRUE,
                           !.query_params = List(<<7>>), !.limit = 10, !.offset = 5]
      [] tool = "insert" ->
            [NoCall EXCEPT !.tool = "insert", !.returning = List(<<"id">>),
                           !.data = <<[col |-> "name", val |-> 7], [col |-> "qty", val |-> 8]>>]
      [] tool = "update" ->
            [NoCall EXCEPT !.tool = "update", !.where = TRUE,
                           !.data = <<[col |-> "qty", val |-> 8]>>,
                           !.query_params = List(<<7>>)]
      [] tool = "delete" ->
            [NoCall EXCEPT !.tool = "delete", !.where = TRUE,
                           !.query_params = List(<<7>>)]

\* ------------------------------------------------------------ return values
NoRet == [kind |-> "none", val |-> "", cls |-> "", query |-> <<>>, params |-> NoneList]
ReturnNone == [NoRet EXCEPT !.kind = "None"]
BoolRet(b) == [NoRet EXCEPT !.kind = "bool", !.val = IF b THEN "True" ELSE "False"]
Raise(cls) == [NoRet EXCEPT !.kind = "raise", !.cls = cls]
Http(code) == [NoRet EXCEPT !.kind = "http", !.val = code]
RowsRet == [NoRet EXCEPT !.kind = "rows"]
StatusRet == [NoRet EXCEPT !.kind = "status"]

\* pg_query.py:40
ConfigErrorValue ==
    [NoRet EXCEPT !.kind = "error", !.val = "Database connection details must be configured"]

\* pg_query.py:65  {"error": f"An unexpected error ...: {str(e)}", "query", "params"}
UnexpectedErrorValue(cls, query, params) ==
    [kind |-> "error", val |-> "An unexpected error occurred during query execution",
     cls |-> "", query |-> query, params |-> params]

\* the database error caught by the generic handler (the handlers swapped)
CaughtAsUnexpected(cls, query, params) == UnexpectedErrorValue(cls, query, params)

\* pg_query.py:63  {"error": f"Database query error: {type(e).__name__} - ...", "query", "params"}
PostgresErrorValue(cls, query, params) ==
    [kind |-> "error", val |-> "Database query error",
     cls |-> cls, query |-> query, params |-> params]

\* ------------------------------------------------------------------ frames
IdleFrame ==
    [op |-> "idle", pc |-> "idle", key |-> "", tool |-> "none", stmt |-> NoStmt,
     pool |-> 0, conn |-> FALSE, tx |-> "none", pend |-> NoRet, ret |-> NoRet,
     \* history of the call, kept for the properties
     acquired |-> FALSE, rejected |-> FALSE, outcome |-> "none", visible |-> FALSE,
     valid |-> NoRet, ran |-> FALSE]

ModuleOf(f) == IF f.op = "query" THEN "pg_query" ELSE "db_utils"

\* The tables drawn: every set of rows for the key "a".
KeyTables == SUBSET [key : {"a"}, active : BOOLEAN]

\* The table t is empty, no tool has returned, no insert is remembered.
NoRound == [rows |-> <<>>,
            result |-> [kind |-> "none", ids |-> <<>>, vals |-> <<>>],
            last |-> [id |-> 0, data |-> <<>>],
            touched |-> FALSE]

\* No call waits for or holds a connection of either module's pool.
NoLoad == [m \in Modules |-> [waiting |-> 0, holding |-> 0]]

Init ==
    /\ round = NoRound
    /\ load = NoLoad
    /\ db_pool = [m \in Modules |-> 0]
    /\ pools = <<>>
    /\ api_keys \in KeyTables
    /\ configOk \in BOOLEAN
    /\ task = [t \in Tasks |-> IdleFrame]
    /\ ops = 0
    /\ call = NoCall
    /\ built = NoStmt

\* ------------------------------------------------------------ the key gate
\* a lookup that forgets the active flag
KeyExists(tbl, k) == \E r \in tbl : r.key = k

\* auth_service.py:27-35  SELECT EXISTS (... WHERE key_value = $1 AND is_active = TRUE)
KeyIsActive(tbl, k) == \E r \in tbl : r.key = k /\ r.active = TRUE

\* a handler that opens the stream whatever the validation said
proceed_without_check(f, r) ==
    IF r.kind = "raise"
    THEN [f EXCEPT !.valid = r, !.pc = "done", !.ret = Http("500")]
    ELSE [f EXCEPT !.valid = r, !.pc = "sse_run", !.ran = TRUE]

\* routes.py:34-53  handle_sse from the return (or raise) of validate_api_key_from_db
handle_sse_validated(f, r) ==
    IF r.kind = "raise"
    THEN [f EXCEPT !.valid = r, !.pc = "done", !.ret = Http("500")]
    ELSE IF r.val # "True"
    THEN [f EXCEPT !.valid = r, !.pc = "done", !.ret = Http("401")]
    ELSE [f EXCEPT !.valid = r, !.pc = "sse_run", !.ran = TRUE]

\* The frame once validate_api_key_from_db has returned r or raised r.
ValidateReturn(f, r) ==
    IF f.op = "sse" THEN handle_sse_validated(f, r)
    ELSE [f EXCEPT !.pc = "done", !.ret = r]

\* The frame once an exception leaves get_db_pool, pool.acquire() or the
\* transaction block: inside validate_api_key_from_db's try it becomes False,
\* everywhere else it propagates to the caller.
Escapes(f, exc, inTry) ==
    IF f.op = "query" THEN [f EXCEPT !.pc = "done", !.ret = exc]
    ELSE IF inTry THEN ValidateReturn(f, BoolRet(FALSE))
    ELSE ValidateReturn(f, exc)

\* ------------------------------------------------------------ get_db_pool
\* db_utils.py:23-36, pg_query.py:24-32: from the call to the first await, or
\* to the return when the module's pool exists.  After the return the caller
\* runs on to its own next await, pool.acquire().
GetPoolEntry(t, f) ==
    LET m == ModuleOf(f)
    IN  IF db_pool[m] = 0
        THEN task' = [task EXCEPT ![t] = [f EXCEPT !.pc = "create_pool"]]
        ELSE task' = [task EXCEPT ![t] = [f EXCEPT !.pool = db_pool[m], !.pc = "acquire"]]

CanCall(t) == task[t].pc \in {"idle", "done"} /\ ops < MaxOps

\* the check taken out: every key goes on to the lookup
KeyAlwaysPresent(k) == FALSE

\* auth_service.py:18  if not api_key  (None and "" alike)
NotApiKey(k) == k = ""

\* validate_api_key_from_db(k), called directly
CallValidate(t) ==
    \E k \in Keys \cup {""} :
        /\ CanCall(t)
        /\ ops' = ops + 1
        /\ LET f == [IdleFrame EXCEPT !.op = "validate", !.key = k]
           IN  IF NotApiKey(k)
               THEN task' = [task EXCEPT ![t] = ValidateReturn(f, BoolRet(FALSE))]
               ELSE GetPoolEntry(t, f)
        /\ UNCHANGED <<db_pool, pools, api_keys, configOk, call, built, round, load>>

\* handle_sse(request): k is the X-Auth-Key header, "" when it is missing
CallSse(t) ==
    \E k \in Keys \cup {""} :
        /\ CanCall(t)
        /\ ops' = ops + 1
        /\ LET f == [IdleFrame EXCEPT !.op = "sse", !.key = k]
           IN  IF k = ""
               THEN task' = [task EXCEPT ![t] = [f EXCEPT !.pc = "done", !.ret = Http("401")]]
               ELSE GetPoolEntry(t, f)
        /\ UNCHANGED <<db_pool, pools, api_keys, configOk, call, built, round, load>>

\* select_from_table / insert_into_table / update_table / delete_from_table:
\* build the statement, then _execute_query up to its first await
CallTool(t) ==
    \E tool \in Tools :
        /\ CanCall(t)
        /\ ops' = ops + 1
        /\ LET f == [IdleFrame EXCEPT !.op = "query", !.tool = tool,
                                      !.stmt = BuildStatement(ExampleCall(tool))]
           IN  IF ~configOk
               THEN task' = [task EXCEPT ![t] = [f EXCEPT !.pc = "done", !.ret = ConfigErrorValue]]
               ELSE GetPoolEntry(t, f)
        /\ UNCHANGED <<db_pool, pools, api_keys, configOk, call, built, round, load>>

\* get_db_pool catching the error and returning None: the caller's
\* pool.acquire() then fails on None
CreateFailureSwallowed(f) == Escapes(f, Raise("AttributeError"), TRUE)

\* db_utils.py:32-35, pg_query.py:30-31  the except clause of get_db_pool logs
\* and re-raises; auth_service.py:21 calls get_db_pool outside its try block
CreateFailed(f) == Escapes(f, Raise("OSError"), FALSE)

\* asyncpg.create_pool completes: the assignment to the module's _db_pool and
\* the return, or the exception re-raised by get_db_pool
CreatePoolDone(t) ==
    LET f == task[t]
        m == ModuleOf(f)
        new == Len(pools) + 1
    IN  /\ f.pc = "create_pool"
        /\ \/ /\ pools' = Append(pools, [owner |-> m, state |-> "open", out |-> 0])
              /\ db_pool' = [db_pool EXCEPT ![m] = new]
              /\ task' = [task EXCEPT ![t] = [f EXCEPT !.pool = db_pool'[m], !.pc = "acquire"]]
           \/ /\ task' = [task EXCEPT ![t] = CreateFailed(f)]
              /\ UNCHANGED <<db_pool, pools>>
        /\ UNCHANGED <<api_keys, configOk, ops, call, built, round, load>>

\* pool.acquire() completes with a connection, or raises (the pool is closing
\* or closed, or no connection can be made); with max_size connections out
\* the task stays suspended
Acquire(t) ==
    LET f == task[t]
        p == f.pool
    IN  /\ f.pc = "acquire"
        /\ \/ /\ pools[p].state = "open"
              /\ pools[p].out < max_size
              /\ pools' = [pools EXCEPT ![p].out = @ + 1]
              /\ task' = [task EXCEPT ![t] =
                            [f EXCEPT !.conn = TRUE, !.acquired = TRUE,
                                      !.pc = IF f.op = "query" THEN "begin" ELSE "fetchval"]]
           \/ /\ task' = [task EXCEPT ![t] = Escapes(f, Raise("InterfaceError"), TRUE)]
              /\ UNCHANGED pools
        /\ UNCHANGED <<db_pool, api_keys, configOk, ops, call, built, round, load>>

\* conn.fetchval(query, api_key) completes
Fetchval(t) ==
    LET f == task[t]
    IN  /\ f.pc = "fetchval"
        /\ \E r \in {BoolRet(KeyIsActive(api_keys, f.key))}
                    \cup {Raise(c) : c \in PgErrors \cup {"OSError"}} :
              task' = [task EXCEPT ![t] = [f EXCEPT !.pend = r, !.pc = "release"]]
        /\ UNCHANGED <<db_pool, pools, api_keys, configOk, ops, call, built, round, load>>

\* ------------------------------------------------------- _execute_query
\* connection.transaction().__aenter__ completes: BEGIN ran, or raised
Begin(t) ==
    LET f == task[t]
    IN  /\ f.pc = "begin"
        /\ \/ task' = [task EXCEPT ![t] = [f EXCEPT !.tx = "open", !.pc = "run"]]
           \/ task' = [task EXCEPT ![t] = [f EXCEPT !.pend = Raise("OSError"), !.pc = "release"]]
        /\ UNCHANGED <<db_pool, pools, api_keys, configOk, ops, call, built, round, load>>

\* pg_query.py:46-59  what the try block returns when the statement ran
StatementResult(stmt) ==
    IF stmt.mode = "execute_only" THEN StatusRet ELSE RowsRet

\* pg_query.py:45-65  the statement completes inside the try block: its result
\* is returned, or the engine rejects it (PostgresError: the engine aborts the
\* transaction) or the driver fails otherwise; both handlers return a value, so
\* the transaction block is left without an exception
Run(t) ==
    LET f == task[t]
    IN  /\ f.pc = "run"
        /\ \/ task' = [task EXCEPT ![t] =
                          [f EXCEPT !.pend = StatementResult(f.stmt), !.pc = "tx_exit"]]
           \/ \E c \in PgErrors :
                 task' = [task EXCEPT ![t] =
                            [f EXCEPT !.pend = PostgresErrorValue(c, f.stmt.query, f.stmt.params),
                                      !.tx = "failed", !.rejected = TRUE, !.pc = "tx_exit"]]
           \/ task' = [task EXCEPT ![t] =
                          [f EXCEPT !.pend = UnexpectedErrorValue("OSError", f.stmt.query, f.stmt.params),
                                    !.pc = "tx_exit"]]
        /\ UNCHANGED <<db_pool, pools, api_keys, configOk, ops, call, built, round, load>>

\* pg_query.py:44  connection.transaction().__aexit__ without an exception:
\* COMMIT is sent.  An open transaction commits (or the commit raises); for a
\* transaction the engine has aborted, COMMIT ends it rolled back.
TxExit(t) ==
    LET f == task[t]
    IN  /\ f.pc = "tx_exit"
        /\ IF f.tx = "failed"
           THEN task' = [task EXCEPT ![t] =
                           [f EXCEPT !.tx = "none", !.outcome = "rolledback", !.pc = "release"]]
           ELSE \/ task' = [task EXCEPT ![t] =
                              [f EXCEPT !.tx = "none", !.outcome = "committed",
                                        !.visible = (f.pend.kind # "error"), !.pc = "release"]]
                \/ task' = [task EXCEPT ![t] =
                              [f EXCEPT !.tx = "none", !.outcome = "rolledback",
                                        !.pend = Raise("OSError"), !.pc = "release"]]
        /\ UNCHANGED <<db_pool, pools, api_keys, configOk, ops, call, built, round, load>>

\* a release that only the normal exit performs
PoolsAfterNormalExit(f) ==
    IF f.pend.kind = "raise" THEN pools ELSE [pools EXCEPT ![f.pool].out = @ - 1]

\* pg_query.py:43, auth_service.py:25  `async with pool.acquire()` is left:
\* the connection goes back to the pool, whatever leaves the block
PoolsAfterExit(f) == [pools EXCEPT ![f.pool].out = @ - 1]

\* The release completes and the call ends: the value is returned, or the
\* pending exception reaches validate_api_key_from_db's handlers
\* (auth_service.py:36-41) or leaves _execute_query.
Release(t) ==
    LET f == task[t]
        g == [f EXCEPT !.conn = FALSE]
    IN  /\ f.pc = "release"
        /\ pools' = PoolsAfterExit(f)
        /\ task' = [task EXCEPT ![t] =
                      IF f.op = "query" THEN [g EXCEPT !.pc = "done", !.ret = f.pend]
                      ELSE IF f.pend.kind = "raise" THEN ValidateReturn(g, BoolRet(FALSE))
                      ELSE ValidateReturn(g, f.pend)]
        /\ UNCHANGED <<db_pool, api_keys, configOk, ops, call, built, round, load>>

\* routes.py:45-53  the SSE connection and the MCP server run end
SseEnd(t) ==
    LET f == task[t]
    IN  /\ f.pc = "sse_run"
        /\ task' = [task EXCEPT ![t] = [f EXCEPT !.pc = "done", !.ret = ReturnNone]]
        /\ UNCHANGED <<db_pool, pools, api_keys, configOk, ops, call, built, round, load>>

\* ---------------------------------------------------------- close_db_pool
\* db_utils.py:40-42  up to the await: Pool.close() marks the pool closing
CallClose(t) ==
    LET p == db_pool["db_utils"]
        f == [IdleFrame EXCEPT !.op = "close"]
    IN  /\ CanCall(t)
        /\ ops' = ops + 1
        /\ IF p = 0
           THEN /\ task' = [task EXCEPT ![t] = [f EXCEPT !.pc = "done", !.ret = ReturnNone]]
                /\ UNCHANGED pools
           ELSE /\ task' = [task EXCEPT ![t] = [f EXCEPT !.pool = p, !.pc = "closing"]]
                /\ pools' = [pools EXCEPT ![p].state = IF @ = "closed" THEN @ ELSE "closing"]
        /\ UNCHANGED <<db_pool, api_keys, configOk, call, built, round, load>>

\* db_utils.py:42-44  Pool.close() returns once every connection is back;
\* then _db_pool = None
CloseDone(t) ==
    LET f == task[t]
    IN  /\ f.pc = "closing"
        /\ pools[f.pool].out = 0
        /\ pools' = [pools EXCEPT ![f.pool].state = "closed"]
        /\ db_pool' = [db_pool EXCEPT !["db_utils"] = 0]
        /\ task' = [task EXCEPT ![t] = [f EXCEPT !.pc = "done", !.ret = ReturnNone]]
        /\ UNCHANGED <<api_keys, configOk, ops, call, built, round, load>>

Next ==
    \E t \in Tasks :
        \/ CallValidate(t)
        \/ CallSse(t)
        \/ CallTool(t)
        \/ CallClose(t)
        \/ CreatePoolDone(t)
        \/ Acquire(t)
        \/ Fetchval(t)
        \/ Begin(t)
        \/ Run(t)
        \/ TxExit(t)
        \/ Release(t)
        \/ SseEnd(t)
        \/ CloseDone(t)

Spec == Init /\ [][Next]_vars

\* ------------------------------------------- the builders on their own
concurrent == <<db_pool, pools, api_keys, configOk, task, ops, round, load>>

InitBuild ==
    /\ Init
    /\ api_keys = {}
    /\ configOk = TRUE

BuildSelect ==
    \E a \in SelectCalls :
        call' = a /\ built' = select_from_table(a) /\ UNCHANGED concurrent

BuildInsert ==
    \E a \in InsertCalls :
        call' = a /\ built' = insert_into_table(a) /\ UNCHANGED concurrent

BuildUpdate ==
    \E a \in UpdateCalls :
        call' = a /\ built' = update_table(a) /\ UNCHANGED concurrent

BuildDelete ==
    \E a \in DeleteCalls :
        call' = a /\ built' = delete_from_table(a) /\ UNCHANGED concurrent

NextBuild == BuildSelect \/ BuildInsert \/ BuildUpdate \/ BuildDelete

SpecBuild == InitBuild /\ [][NextBuild]_vars

\* --------------------------------------- one caller and the table t
\* What PostgreSQL does with the statements the tools send (pg_query.py:47,
\* 53): the table t has the columns id (serial), name and qty; a row of
\* round.rows is its name and qty, its id is its position.  The predicate
\* fragment of these calls is "id = $k".
IsPlaceholder(tok) == tok.n > 0 \/ tok.s = "$"
Position(q, w) == CHOOSE i \in 1..Len(q) : q[i] = Txt(w)

\* The engine accepts a statement whose placeholders are exactly $1..$n for
\* the n parameters bound.
StatementValid(stmt) ==
    {stmt.query[i].n : i \in {j \in 1..Len(stmt.query) : IsPlaceholder(stmt.query[j])}}
        = 1..Len(stmt.params.items)

\* columns[i] receives the parameter its i-th placeholder names, the other
\* columns are NULL
AssignedRow(cols, phs, params, old) ==
    [c \in Columns |->
        IF \E i \in 1..Len(cols) : cols[i].s = c
        THEN params[phs[CHOOSE i \in 1..Len(cols) : cols[i].s = c].n]
        ELSE old[c]]

NullRow == [c \in Columns |-> None]

\* INSERT INTO t (cols) VALUES (placeholders)
InsertedRow(stmt) ==
    LET q == stmt.query
        a == Position(q, "(")
        b == Position(q, ") VALUES (")
        c == Position(q, ")")
    IN  AssignedRow(SubSeq(q, a + 1, b - 1), SubSeq(q, b + 1, c - 1),
                    stmt.params.items, NullRow)

InsertValid(stmt) ==
    /\ StatementValid(stmt)
    /\ Position(stmt.query, ") VALUES (") > Position(stmt.query, "(") + 1

\* the id the predicate "id = $k" selects
WhereId(stmt) ==
    stmt.params.items[stmt.query[Position(stmt.query, "WHERE") + 1].n]

\* UPDATE t SET col = $i, ... WHERE id = $k, applied to the row
UpdatedRow(stmt, old) ==
    LET q == stmt.query
        setpart == SubSeq(q, 4, Position(q, "WHERE") - 1)
        IsCol(tok) == tok.s \in Columns
    IN  AssignedRow(SelectSeq(setpart, IsCol), SelectSeq(setpart, IsPlaceholder),
                    stmt.params.items, old)

RoundOutcomes == {"ok", "rejected", "raised"}

\* _execute_query run by a single caller, from call to return: the statement
\* takes effect only if it ran and COMMIT succeeded ("ok"); a statement the
\* engine rejects returns the error value, an exception of the pool or of the
\* transaction leaves the call; neither changes the table.
ExecuteAlone(o, valid, rowsAfter, value) ==
    IF o = "ok" /\ valid
    THEN [rows |-> rowsAfter, result |-> value]
    ELSE IF o = "raised"
    THEN [rows |-> round.rows, result |-> [kind |-> "raise", ids |-> <<>>, vals |-> <<>>]]
    ELSE [rows |-> round.rows, result |-> [kind |-> "error", ids |-> <<>>, vals |-> <<>>]]

RoundIds == 1..MaxRows

\* insert_into_table("t", data, returning_columns)
RoundInsert ==
    \E a \in InsertCalls, o \in RoundOutcomes :
        LET stmt == insert_into_table(a)
            new == Len(round.rows) + 1
            value == IF stmt.mode = "fetch_all"
                     THEN [kind |-> "rows", ids |-> <<new>>, vals |-> <<>>]
                     ELSE [kind |-> "status", ids |-> <<>>, vals |-> <<>>]
            e == ExecuteAlone(o, InsertValid(stmt), Append(round.rows, InsertedRow(stmt)), value)
            remembered == e.result.kind = "rows" /\ a.returning = List(<<"id">>)
        IN  /\ Len(round.rows) < MaxRows
            /\ call' = a
            /\ built' = stmt
            /\ round' = [rows |-> e.rows, result |-> e.result,
                         last |-> IF remembered THEN [id |-> new, data |-> a.data]
                                  ELSE round.last,
                         touched |-> IF remembered THEN FALSE ELSE round.touched]
            /\ UNCHANGED <<db_pool, pools, api_keys, configOk, task, ops, load>>

\* select_from_table("t", "*", where_clause="id = $1", query_params=[id])
RoundSelect ==
    \E id \in RoundIds, o \in RoundOutcomes :
        LET a == [NoCall EXCEPT !.tool = "select", !.where = TRUE,
                                !.query_params = List(<<id>>)]
            stmt == select_from_table(a)
            found == IF StatementValid(stmt) /\ WhereId(stmt) \in 1..Len(round.rows)
                     THEN <<WhereId(stmt)>> ELSE <<>>
            value == [kind |-> "rows", ids |-> found,
                      vals |-> [i \in 1..Len(found) |-> round.rows[found[i]]]]
            e == ExecuteAlone(o, StatementValid(stmt), round.rows, value)
        IN  /\ call' = a
            /\ built' = stmt
            /\ round' = [round EXCEPT !.result = e.result]
            /\ UNCHANGED <<db_pool, pools, api_keys, configOk, task, ops, load>>

\* the other operation of the round trip changes at most one column
RoundChanges == {d \in Dicts : Len(d) <= 1}

\* update_table("t", set_values, "id = $K+1", [id])
RoundUpdate ==
    \E id \in RoundIds, d \in RoundChanges, o \in RoundOutcomes :
        LET a == [NoCall EXCEPT !.tool = "update", !.where = TRUE, !.data = d,
                                !.query_params = List(<<id>>)]
            stmt == update_table(a)
            valid == StatementValid(stmt) /\ Len(d) > 0
            hit == valid /\ WhereId(stmt) \in 1..Len(round.rows)
            after == IF hit
                     THEN [round.rows EXCEPT ![WhereId(stmt)] = UpdatedRow(stmt, @)]
                     ELSE round.rows
            e == ExecuteAlone(o, valid, after, [kind |-> "status", ids |-> <<>>, vals |-> <<>>])
        IN  /\ call' = a
            /\ built' = stmt
            /\ round' = [round EXCEPT !.rows = e.rows, !.result = e.result,
                                      !.touched = @ \/ (e.rows # round.rows
                                                        /\ WhereId(stmt) = round.last.id)]
            /\ UNCHANGED <<db_pool, pools, api_keys, configOk, task, ops, load>>

InitRound == Init /\ api_keys = {} /\ configOk = TRUE

NextRound == RoundInsert \/ RoundSelect \/ RoundUpdate

SpecRound == InitRound /\ [][NextRound]_vars

\* ----------------------------------------- many calls, counted per pool
\* The calls of a process that use a connection, counted per module: each
\* module's get_db_pool has created its pool (min_size=1, max_size=10,
\* db_utils.py:26-30 and pg_query.py:26-29).  waiting: calls suspended in
\* pool.acquire(); holding: calls inside the async with block.
InFlight == load["db_utils"].waiting + load["db_utils"].holding
            + load["pg_query"].waiting + load["pg_query"].holding

\* a lookup (db_utils) or a statement (pg_query) reaches pool.acquire()
LoadStart(m) ==
    /\ InFlight < NumCalls
    /\ load' = [load EXCEPT ![m].waiting = @ + 1]
    /\ UNCHANGED <<db_pool, pools, api_keys, configOk, task, ops, call, built, round>>

\* pool.acquire() hands out a connection while fewer than max_size are out
LoadAcquire(m) ==
    /\ load[m].waiting > 0
    /\ load[m].holding < max_size
    /\ load' = [load EXCEPT ![m].waiting = @ - 1, ![m].holding = @ + 1]
    /\ UNCHANGED <<db_pool, pools, api_keys, configOk, task, ops, call, built, round>>

\* the async with block is left: the connection goes back to its pool
LoadRelease(m) ==
    /\ load[m].holding > 0
    /\ load' = [load EXCEPT ![m].holding = @ - 1]
    /\ UNCHANGED <<db_pool, pools, api_keys, configOk, task, ops, call, built, round>>

InitLoad == Init /\ api_keys = {} /\ configOk = TRUE

NextLoad == \E m \in Modules : LoadStart(m) \/ LoadAcquire(m) \/ LoadRelease(m)

SpecLoad == InitLoad /\ [][NextLoad]_vars

\* ============================================================ properties
LivePools == {i \in DOMAIN pools : pools[i].state # "closed"}
PoolsOf(m) == {i \in DOMAIN pools : pools[i].owner = m}

\* C1: while no pool of a module has been closed (every get_db_pool call so
\* far is a first-time call), create_pool has produced at most one pool for
\* the module and every caller of its get_db_pool holds the same instance.
C1_SingleFlight ==
    \A m \in Modules :
        (\A i \in PoolsOf(m) : pools[i].state = "open") =>
            /\ Cardinality(PoolsOf(m)) <= 1
            /\ \A t1, t2 \in Tasks :
                  ( /\ task[t1].op # "idle" /\ task[t2].op # "idle"
                    /\ ModuleOf(task[t1]) = m /\ ModuleOf(task[t2]) = m
                    /\ task[t1].pool # 0 /\ task[t2].pool # 0 )
                  => task[t1].pool = task[t2].pool

\* C2: at most one created and not yet closed pool exists in the process, and
\* the connections held by the gate and by the executor come from one pool.
C2_AtMostOneLivePool ==
    /\ Cardinality(LivePools) <= 1
    /\ \A t1, t2 \in Tasks :
          (task[t1].conn /\ task[t2].conn) => task[t1].pool = task[t2].pool

\* C3: a call that has ended holds no connection, on every exit path, and the
\* number of connections checked out of each pool is the number of running
\* calls holding one: zero once the calls have ended, failing or not.
C3_ConnectionsReleased ==
    /\ \A t \in Tasks : task[t].pc \in {"idle", "done", "sse_run"} => ~task[t].conn
    /\ \A p \in DOMAIN pools :
          pools[p].out = Cardinality({t \in Tasks : task[t].conn /\ task[t].pool = p})

\* two calls that acquired a connection have both ended in failure, one of
\* them with an exception of the transaction, and no connection is out
C3_Witness ==
    /\ \A p \in DOMAIN pools : pools[p].out = 0
    /\ \E t1, t2 \in Tasks :
          /\ t1 # t2
          /\ task[t1].pc = "done" /\ task[t1].acquired /\ task[t1].ret.kind = "raise"
          /\ task[t2].pc = "done" /\ task[t2].acquired /\ task[t2].ret.kind = "error"

\* C4: validate_api_key_from_db never raises, and returns False for the empty
\* key, for a key with no row, for a key whose rows are inactive and when the
\* lookup fails.
C4_FalseNeverRaise ==
    \A t \in Tasks :
        (task[t].op = "validate" /\ task[t].pc = "done") =>
            /\ task[t].ret.kind = "bool"
            /\ ( \/ task[t].key = ""
                 \/ ~\E r \in api_keys : r.key = task[t].key /\ r.active )
               => task[t].ret.val = "False"

\* C5: validate_api_key_from_db returns True only if the key table holds a row
\* whose key equals the supplied key and whose active flag is true.
C5_TrueOnlyIfActiveRow ==
    \A t \in Tasks :
        (task[t].op = "validate" /\ task[t].pc = "done" /\ task[t].ret = BoolRet(TRUE)) =>
            \E r \in api_keys : r.key = task[t].key /\ r.active = TRUE

C5_Witness ==
    \E t \in Tasks :
        task[t].op = "validate" /\ task[t].pc = "done" /\ task[t].ret = BoolRet(TRUE)

\* C6: the SSE connection and the MCP server run of a request start only after
\* validate_api_key_from_db returned True for the request's credential; a
\* request without credential, or whose validation returned False, ends with
\* 401 and without the tool logic having run.
C6_ToolLogicOnlyAfterValid ==
    \A t \in Tasks :
        task[t].op = "sse" =>
            /\ task[t].ran => (task[t].key # "" /\ task[t].valid = BoolRet(TRUE))
            /\ (task[t].pc = "done" /\ (task[t].key = "" \/ task[t].valid = BoolRet(FALSE)))
               => (task[t].ret = Http("401") /\ ~task[t].ran)

\* one request's tool logic runs, another was rejected after a False validation
C6_Witness ==
    \E t1, t2 \in Tasks :
        /\ task[t1].op = "sse" /\ task[t1].ran
        /\ task[t2].op = "sse" /\ task[t2].pc = "done" /\ task[t2].valid = BoolRet(FALSE)

C8_NoExceptionEscapes ==
    \A t \in Tasks :
        (task[t].op = "query" /\ task[t].pc = "done") =>
            task[t].ret.kind \in {"rows", "status", "error"}

\* C9: select_from_table with M predicate parameters: the placeholders it
\* appends are numbered M+1 (and M+2) in the order LIMIT, OFFSET, so that with
\* a predicate fragment using $1..$M the statement's placeholders are exactly
\* $1, $2, ... with none reused or skipped, and the parameters passed on are
\* the predicate parameters followed by the limit and the offset that are set.
C9_SelectPlaceholders ==
    call.tool = "select" =>
        LET M == Len(call.query_params.items)
            q == built.query
            IsPh(tok) == tok.n > 0 \/ tok.s = "$"
            phs == SelectSeq(q, IsPh)
            After(w) == q[(CHOOSE i \in 1..Len(q) : q[i] = Txt(w)) + 1]
            HasWord(w) == \E i \in 1..Len(q) : q[i] = Txt(w)
            tail == (IF call.limit # None THEN <<call.limit>> ELSE <<>>)
                    \o (IF call.offset # None THEN <<call.offset>> ELSE <<>>)
            k == Len(tail)
            before == IF call.where THEN M ELSE 0
        IN  /\ HasWord("LIMIT") <=> call.limit # None
            /\ HasWord("OFFSET") <=> call.offset # None
            /\ call.limit # None => After("LIMIT") = Ph(M + 1)
            /\ (call.limit # None /\ call.offset # None) => After("OFFSET") = Ph(M + 2)
            /\ (call.limit = None /\ call.offset # None) => After("OFFSET") = Ph(M + 1)
            /\ Len(phs) = before + k
            /\ \A i \in 1..Len(phs) : phs[i] = Ph(M - before + i)
            /\ k > 0 => built.params = List(call.query_params.items \o tail)
            /\ k = 0 => built.params = call.query_params

\* a select with two predicate parameters, a limit and an offset was built
C9_Witness ==
    /\ call.tool = "select" /\ call.where
    /\ Len(call.query_params.items) = 2
    /\ call.limit # None /\ call.offset # None
    /\ built = select_from_table(call)

\* C10: insert_into_table with N columns: the statement has exactly the N
\* placeholders $1..$N, in the order of the mapping's columns, the parameters
\* are the mapping's values in that order, and RETURNING adds neither a
\* placeholder nor a parameter.
C10_InsertPlaceholders ==
    call.tool = "insert" =>
        LET N == Len(call.data)
            q == built.query
            IsPh(tok) == tok.n > 0 \/ tok.s = "$"
            phs == SelectSeq(q, IsPh)
            IsCol(tok) == tok.s \in Columns
            cols == SelectSeq(q, IsCol)
        IN  /\ Len(phs) = N
            /\ \A i \in 1..N : phs[i] = Ph(i)
            /\ Len(cols) = N
            /\ \A i \in 1..N : cols[i] = Txt(call.data[i].col)
            /\ built.params = List([i \in 1..N |-> call.data[i].val])
            /\ (\E i \in 1..Len(q) : q[i] = Txt("RETURNING")) <=> Truthy(call.returning)

\* an insert of two columns with RETURNING id was built
C10_Witness ==
    /\ call.tool = "insert"
    /\ Len(call.data) = 2
    /\ call.returning = List(<<"id">>)
    /\ built = insert_into_table(call)

\* C11: update_table with K set-columns and J predicate parameters: the SET
\* clause names the mapping's columns in order with the placeholders $1..$K,
\* and the parameters passed on are the K set-values in order followed by the
\* J predicate parameters in order, K+J in all.
C11_UpdateParams ==
    call.tool = "update" =>
        LET K == Len(call.data)
            J == Len(call.query_params.items)
            q == built.query
            w == CHOOSE i \in 1..Len(q) : q[i] = Txt("WHERE")
            setpart == SubSeq(q, 4, w - 1)
            IsPh(tok) == tok.n > 0 \/ tok.s = "$"
            IsCol(tok) == tok.s \in Columns
            phs == SelectSeq(setpart, IsPh)
            cols == SelectSeq(setpart, IsCol)
            p == built.params.items
        IN  /\ q[3] = Txt("SET")
            /\ Len(phs) = K /\ Len(cols) = K
            /\ \A i \in 1..K : phs[i] = Ph(i) /\ cols[i] = Txt(call.data[i].col)
            /\ ~built.params.none
            /\ Len(p) = K + J
            /\ \A i \in 1..K : p[i] = call.data[i].val
            /\ \A j \in 1..J : p[K + j] = call.query_params.items[j]

\* an update of two columns with two predicate parameters, whose values differ
\* from the set-values' order, was built
C11_Witness ==
    /\ call.tool = "update"
    /\ Len(call.data) = 2
    /\ Len(call.query_params.items) = 2
    /\ call.data[1].val # call.query_params.items[1]
    /\ built = update_table(call)

\* C12: after insert_into_table with returning_columns=["id"] returned an id,
\* a select_from_table with where_clause "id = $1" and that id as its only
\* parameter returns exactly the row of that id, and each inserted column
\* holds the inserted value, provided no other operation changed the row.
C12_RoundTrip ==
    ( /\ call.tool = "select"
      /\ round.last.id # 0
      /\ ~round.touched
      /\ call.query_params = List(<<round.last.id>>)
      /\ round.result.kind = "rows" )
    => /\ round.result.ids = <<round.last.id>>
       /\ Len(round.result.vals) = 1
       /\ \A i \in 1..Len(round.last.data) :
             round.result.vals[1][round.last.data[i].col] = round.last.data[i].val

\* the second row, inserted with two different values, was selected by its id
C12_Witness ==
    /\ call.tool = "select"
    /\ round.last.id = 2
    /\ ~round.touched
    /\ call.query_params = List(<<2>>)
    /\ round.result.kind = "rows"
    /\ Len(round.last.data) = 2
    /\ round.last.data[1].val # round.last.data[2].val

\* C13: validate_api_key_from_db with an empty or absent key returns False in
\* the step of the call: it is never suspended, holds no pool and no
\* connection, and the step changes neither a pool nor a module's _db_pool.
C13_EmptyKeyImmediate ==
    [][\A t \in Tasks :
          (task'[t] # task[t] /\ task'[t].op = "validate" /\ task'[t].key = "")
          => /\ task'[t].pc = "done"
             /\ task'[t].ret = BoolRet(FALSE)
             /\ ~task'[t].acquired
             /\ task'[t].pool = 0
             /\ ~task'[t].conn
             /\ pools' = pools
             /\ db_pool' = db_pool]_vars

\* an empty key was refused while the module had no pool yet
C13_Witness ==
    \E t \in Tasks : /\ task[t].op = "validate"
                     /\ task[t].key = ""
                     /\ task[t].pc = "done"
                     /\ task[t].ret = BoolRet(FALSE)
                     /\ db_pool["db_utils"] = 0

\* C14: a request to /sse whose key validation failed internally (pool
\* creation, pool.acquire() or the lookup query raised) is answered 500, not
\* 401, and the stream is never opened.
C14_InternalErrorIs500 ==
    \A t \in Tasks :
        ( /\ task[t].op = "sse"
          /\ task[t].pc = "done"
          /\ \/ task[t].valid.kind = "raise"
             \/ task[t].pend.kind = "raise"
             \/ (task[t].key # "" /\ task[t].valid = BoolRet(FALSE) /\ ~task[t].acquired) )
        => task[t].ret = Http("500") /\ ~task[t].ran

\* C15: when create_pool fails, the get_db_pool call ends in that step with the
\* error raised to its caller, the module's _db_pool is not assigned, no frame
\* ever holds a pool that was not created, and a call that gets a pool without
\* creating one gets the pool _db_pool references.
C15_CreateFailurePropagates ==
    [][\A t \in Tasks :
          /\ (task[t].pc = "create_pool" /\ task'[t] # task[t] /\ pools' = pools)
             => /\ task'[t].pc = "done"
                /\ task'[t].pool = 0
                /\ db_pool' = db_pool
                /\ IF task'[t].op = "sse"
                   THEN task'[t].valid.kind = "raise" /\ task'[t].ret = Http("500")
                   ELSE task'[t].ret.kind = "raise"
          /\ task'[t].pool # 0 => task'[t].pool \in DOMAIN pools'
          /\ (task[t].pc \in {"idle", "done"} /\ task'[t].pc = "acquire")
             => /\ db_pool[ModuleOf(task'[t])] # 0
                /\ task'[t].pool = db_pool[ModuleOf(task'[t])]
          /\ ( /\ task[t].pc \in {"idle", "done"}
               /\ task'[t].pc \notin {"idle", "done"}
               /\ task'[t].op # "close"
               /\ db_pool[ModuleOf(task'[t])] = 0 )
             => task'[t].pc = "create_pool"]_vars

\* one call ended with the creation error, nothing was created, and another
\* call is creating a pool
C15_Witness ==
    \E t1, t2 \in Tasks :
        /\ task[t1].op = "validate" /\ task[t1].pc = "done"
        /\ task[t1].ret = Raise("OSError") /\ task[t1].pool = 0
        /\ task[t2].op = "validate" /\ task[t2].pc = "create_pool"
        /\ pools = <<>> /\ db_pool["db_utils"] = 0

\* C16: close_db_pool closes the pool and sets _db_pool to None, and does
\* nothing when there is no pool; while _db_pool references a pool no
\* get_db_pool call creates another and every call returns that pool; a pool
\* created after a close is a new one.
C16_CloseResetLifecycle ==
    [][\A t \in Tasks :
          /\ (task[t].pc = "closing" /\ task'[t].pc = "done")
             => /\ pools'[task[t].pool].state = "closed"
                /\ db_pool'["db_utils"] = 0
          /\ ( /\ task[t].pc \in {"idle", "done"}
               /\ task'[t] # task[t]
               /\ task'[t].op = "close"
               /\ db_pool["db_utils"] = 0 )
             => /\ task'[t].pc = "done"
                /\ pools' = pools
                /\ db_pool' = db_pool
          /\ (task[t].pc = "create_pool" /\ task'[t] # task[t] /\ pools' # pools)
             => /\ db_pool[ModuleOf(task[t])] = 0
                /\ task'[t].pool = Len(pools) + 1
                /\ pools'[task'[t].pool].state = "open"
          /\ (task[t].pc \in {"idle", "done"} /\ task'[t].pc = "acquire")
             => task'[t].pool = db_pool[ModuleOf(task'[t])]]_vars

\* C17: the calls holding a connection, lookups of validate_api_key_from_db
\* and statements of _execute_query together, never number more than
\* max_size, and a call waits in pool.acquire() only while max_size
\* connections are out.
C17_AtMostMaxSizeOperations ==
    /\ load["db_utils"].holding + load["pg_query"].holding <= max_size
    /\ \A m \in Modules :
          (load[m].waiting > 0 /\ ~ENABLED LoadAcquire(m)) => load[m].holding = max_size

\* C18: a get_db_pool call that returns without creating a pool returns an
\* open pool, never one on which close() has begun.
C18_NeverReturnsClosingPool ==
    [][\A t \in Tasks :
          (task[t].pc \in {"idle", "done"} /\ task'[t].pc = "acquire")
          => pools'[task'[t].pool].state = "open"]_vars

\* C19: every pool created is referenced by its module's _db_pool or has been
\* closed.
C19_NoOrphanedPool ==
    \A i \in DOMAIN pools :
        pools[i].state = "closed" \/ db_pool[pools[i].owner] = i

====
